---- MODULE Spec2Model ----
(***************************************************************************)
(* DevInspect: the performance-metrics subsystem of the content script    *)
(* (src/src/content/modules/performance.ts) and the inspector's           *)
(* activation cycle that drives it (src/src/content/modules/inspector.ts).*)
(*                                                                         *)
(* Numbers.  Times are integer milliseconds.  Layout-shift values and cls  *)
(* are in units of 1/10000 (0.05 is 500, the 0.1 threshold is 1000).       *)
(* A value that may be null is Null or Num(x); Val gives x back.           *)
(***************************************************************************)
EXTENDS Integers, Sequences, FiniteSets, TLC

Null == <<>>
Num(x) == <<x>>
Val(o) == o[1]

(***************************************************************************)
(* Bounds of the model.                                                    *)
(***************************************************************************)
MaxBatch == 2
MaxDeliveries == 1
MaxCalcs == 2
MaxResets == 1

(***************************************************************************)
(* Program constants.                                                      *)
(***************************************************************************)
METRICS_CACHE_DURATION == 5000
InpMinDuration == 40
LcpBad == 2500
ClsBad == 1000
TtfbBad == 800
FidBad == 100
InpBad == 200
LargeImageBytes == 200000
LargeScriptBytes == 500000
BytesPerKB == 1024

Metrics == {"lcp", "cls", "fid", "inp"}

(***************************************************************************)
(* Inputs: the readings of Date.now (a wall clock: a reading may be lower  *)
(* than an earlier one), the platform the page runs on, and the            *)
(* performance entries the platform delivers.  getPerformanceMetrics takes *)
(* no argument: the element being inspected is not an input of it.         *)
(***************************************************************************)
Times == {1, 2, 5001}

\* hasPO: 'PerformanceObserver' in window; unsupported: the entry types whose
\* observer registration raises; nav: performance.getEntriesByType('navigation')[0].
Platforms ==
    { [hasPO |-> TRUE,  unsupported |-> {},      nav |-> [responseStart |-> 1000, requestStart |-> 100]],
      [hasPO |-> TRUE,  unsupported |-> {"inp"}, nav |-> Null],
      [hasPO |-> FALSE, unsupported |-> {},      nav |-> [responseStart |-> 300, requestStart |-> 100]] }

LcpEntries == [renderTime : {0, 3000}, loadTime : {2000}]
ShiftEntries == { [value |-> 500, hadRecentInput |-> FALSE],
                  [value |-> 503, hadRecentInput |-> TRUE] }
FidEntries == { [processingStart |-> 150, startTime |-> 20],
                [processingStart |-> 120, startTime |-> 100] }
EventEntries == [duration : {40, 50, 250}]

\* The document and the resource-timing entries at the time of a
\* getPerformanceMetrics call.  throws: the first DOM query or the
\* resource-timing access raises; altQueryThrows: the query for the images
\* without alt raises, after the first five warnings were derived;
\* hasPerformance: window.performance exists.
EnvPlain ==
    [hasPerformance |-> TRUE, throws |-> FALSE, altQueryThrows |-> FALSE, totalNodes |-> 10,
     resources |-> <<>>, imgsWithoutAlt |-> 0]

EnvHeavy ==
    [hasPerformance |-> TRUE, throws |-> FALSE, altQueryThrows |-> FALSE, totalNodes |-> 20,
     resources |-> << [initiatorType |-> "img",    transferSize |-> 300000],
                      [initiatorType |-> "img",    transferSize |-> 100000],
                      [initiatorType |-> "script", transferSize |-> 600000],
                      [initiatorType |-> "link",   transferSize |-> 1000],
                      [initiatorType |-> "css",    transferSize |-> 2000] >>,
     imgsWithoutAlt |-> 2]

EnvBroken == [EnvHeavy EXCEPT !.throws = TRUE]

\* something raises inside the try of calculatePerformanceMetrics
Fails(env) == env.throws \/ env.altQueryThrows

Envs == {EnvPlain, EnvHeavy, EnvBroken}

SeqsUpTo(S, n) == UNION { [1..k -> S] : k \in 0..n }

Batches(m) ==
    CASE m = "lcp" -> SeqsUpTo(LcpEntries, MaxBatch)
      [] m = "cls" -> SeqsUpTo(ShiftEntries, MaxBatch)
      [] m = "fid" -> SeqsUpTo(FidEntries, MaxBatch)
      [] m = "inp" -> SeqsUpTo(EventEntries, MaxBatch)

(***************************************************************************)
(* The state.  The first seven variables are the program's and the         *)
(* platform's; the rest record what the operations did, for the            *)
(* properties below.                                                       *)
(*   observers[m]  the PerformanceObserver objects registered for entry    *)
(*                 type m and never disconnected (the platform keeps them) *)
(*   calcCount     the number of calculatePerformanceMetrics invocations   *)
(*   returned      what the last operation returned: a snapshot after      *)
(*                 getPerformanceMetrics, Null after the others            *)
(*   last          the last operation; for getPerformanceMetrics also the  *)
(*                 reading of Date.now, whether a cache entry existed      *)
(*                 (had) and its timestamp (prev) when the call started    *)
(*   seen          since the last reset: the batches delivered, the sum of *)
(*                 the delivered shift values without recent input, the    *)
(*                 delivered event durations, the aggregator invocations,  *)
(*                 the entry types of which a callback raised, whether the *)
(*                 last aggregator invocation caught a failure             *)
(*   state         the state module's own variables besides isActive: its  *)
(*                 cache entry, its timestamp, its vitals store, and       *)
(*                 whether highlightBox is set                             *)
(*   page          the document as the inspector sees it: whether it has a *)
(*                 highlight box and what style was written to it, whether *)
(*                 the mousemove and click listeners are attached, whether *)
(*                 the debounce timer is pending, whether it has a panel   *)
(***************************************************************************)
VARIABLES observedVitals, vitalsObserversInitialized, cachedPerformanceMetrics,
          lastMetricsCalculationTime, isActive, platform, observers,
          calcCount, returned, last, deliveries, resets, seen, clearedSinceGet,
          state, page

vars == <<observedVitals, vitalsObserversInitialized, cachedPerformanceMetrics,
          lastMetricsCalculationTime, isActive, platform, observers,
          calcCount, returned, last, deliveries, resets, seen, clearedSinceGet,
          state, page>>

InitialVitals == [lcp |-> Null, cls |-> 0, fid |-> Null, inp |-> Null, ttfb |-> Null]

InitialState ==
    [cachedPerformanceMetrics |-> Null, lastMetricsCalculationTime |-> 0,
     observedVitals |-> InitialVitals, highlightBox |-> FALSE]

InitialPage ==
    [box |-> FALSE, style |-> Null, mousemove |-> FALSE, click |-> FALSE,
     timeout |-> FALSE, panel |-> FALSE]

\* the state module and the page of an activated inspector
ActiveState == [InitialState EXCEPT !.highlightBox = TRUE]
ActivePage == [InitialPage EXCEPT !.box = TRUE, !.mousemove = TRUE, !.click = TRUE]

NothingSeen ==
    [batches |-> 0, shiftNoInput |-> 0, durations |-> {}, calcs |-> 0, raised |-> {},
     failed |-> FALSE]

\* m, entries, before: the entry type and the batch of a recorded delivery and
\* the store when its callbacks started; env: the document of a recorded
\* aggregation; effect: what a recorded mousemove or click handler run did
\* ("highlight": it wrote the highlight box, "panel": it showed a panel).
Op(name) ==
    [op |-> name, now |-> 0, had |-> FALSE, prev |-> 0,
     m |-> "none", entries |-> <<>>, before |-> InitialVitals, env |-> EnvPlain,
     effect |-> "none"]

(***************************************************************************)
(* The observer callbacks, as functions from the store and a delivered     *)
(* batch to the store.                                                     *)
(***************************************************************************)
\* a || b on numbers: 0 (and undefined, modelled as 0) is falsy
JsOr(a, b) == IF a # 0 THEN a ELSE b

\* A malformed entry is a null where the platform should have put an entry:
\* it is falsy, and reading a property of it raises a TypeError.
Malformed(entry) == entry = Null

\* the first entry of the batch is read, not the last
LcpCallback_FirstEntry(v, entries) ==
    IF Len(entries) = 0
    THEN v
    ELSE LET lastEntry == entries[1]
         IN  IF Malformed(lastEntry)
             THEN v
             ELSE [v EXCEPT !.lcp = Num(JsOr(JsOr(lastEntry.renderTime, lastEntry.loadTime), 0))]

\* "if (lastEntry)": an empty batch and a null last entry write nothing
LcpCallback(v, entries) ==
    IF Len(entries) = 0
    THEN v
    ELSE LET lastEntry == entries[Len(entries)]
         IN  IF Malformed(lastEntry)
             THEN v
             ELSE [v EXCEPT !.lcp = Num(JsOr(JsOr(lastEntry.renderTime, lastEntry.loadTime), 0))]

ClsAdd(v, layoutShift) ==
    IF ~layoutShift.hadRecentInput
    THEN [v EXCEPT !.cls = v.cls + layoutShift.value]
    ELSE v

\* The for loop inside the try: reading hadRecentInput of a malformed entry
\* raises, the catch ends the callback, and what the loop added to cls
\* before that entry stays added.
RECURSIVE ClsCallback(_, _)
ClsCallback(v, entries) ==
    IF Len(entries) = 0
    THEN v
    ELSE IF Malformed(Head(entries))
    THEN v
    ELSE ClsCallback(ClsAdd(v, Head(entries)), Tail(entries))

\* a first-wins latch: fid is written only while it is absent
FidCallback_Latch(v, entries) ==
    IF Len(entries) = 0
    THEN v
    ELSE LET firstInput == entries[1]
         IN  IF Malformed(firstInput) \/ v.fid # Null
             THEN v
             ELSE [v EXCEPT !.fid = Num(firstInput.processingStart - firstInput.startTime)]

\* "if (firstInput)": an empty batch and a null first entry write nothing
FidCallback(v, entries) ==
    IF Len(entries) = 0
    THEN v
    ELSE LET firstInput == entries[1]
         IN  IF Malformed(firstInput)
             THEN v
             ELSE [v EXCEPT !.fid = Num(firstInput.processingStart - firstInput.startTime)]

\* >= for >: an entry of exactly 40 ms qualifies
InpUpdate_Inclusive(v, entry) ==
    IF entry.duration # 0 /\ entry.duration >= InpMinDuration
    THEN IF v.inp = Null \/ entry.duration > Val(v.inp)
         THEN [v EXCEPT !.inp = Num(entry.duration)]
         ELSE v
    ELSE v

InpUpdate(v, entry) ==
    IF entry.duration # 0 /\ entry.duration > InpMinDuration
    THEN IF v.inp = Null \/ entry.duration > Val(v.inp)
         THEN [v EXCEPT !.inp = Num(entry.duration)]
         ELSE v
    ELSE v

\* The forEach inside the try: reading duration of a malformed entry raises,
\* the catch ends the callback, and what the earlier entries wrote stays.
RECURSIVE InpCallback(_, _)
InpCallback(v, entries) ==
    IF Len(entries) = 0
    THEN v
    ELSE IF Malformed(Head(entries))
    THEN v
    ELSE InpCallback(InpUpdate(v, Head(entries)), Tail(entries))

Callback(m, v, entries) ==
    CASE m = "lcp" -> LcpCallback(v, entries)
      [] m = "cls" -> ClsCallback(v, entries)
      [] m = "fid" -> FidCallback(v, entries)
      [] m = "inp" -> InpCallback(v, entries)

\* The platform hands a batch to every observer registered for its type, one
\* callback after the other in the same task.
RECURSIVE NotifyObservers(_, _, _, _)
NotifyObservers(m, n, v, entries) ==
    IF n = 0
    THEN v
    ELSE NotifyObservers(m, n - 1, Callback(m, v, entries), entries)

(***************************************************************************)
(* The aggregator.  A snapshot's obj is the identity of the object the     *)
(* call allocated: n, the number of the aggregator invocation.             *)
(***************************************************************************)
getEmptyMetrics(n) ==
    [lcp |-> Null, fid |-> Null, cls |-> 0, ttfb |-> Null, inp |-> Null,
     totalNodes |-> 0, totalImages |-> 0, totalScripts |-> 0,
     totalStylesheets |-> 0, warnings |-> <<>>, obj |-> n]

RECURSIVE SumTransferSize(_)
SumTransferSize(rs) ==
    IF Len(rs) = 0 THEN 0 ELSE JsOr(Head(rs).transferSize, 0) + SumTransferSize(Tail(rs))

\* the quotient is truncated
ToFixed0_Truncates(num, den) == num \div den

\* (num / den).toFixed(0) for num >= 0, den > 0: the nearest integer, a half
\* rounding up
ToFixed0(num, den) == (2 * num + den) \div (2 * den)

IsImage(r) == r.initiatorType = "img"
IsScript(r) == r.initiatorType = "script"
IsStylesheet(r) == r.initiatorType = "link" \/ r.initiatorType = "css"
\* >= for >: an image of exactly 200000 bytes counts as large
IsLargeImage_Inclusive(img) == JsOr(img.transferSize, 0) >= LargeImageBytes
IsLargeImage(img) == JsOr(img.transferSize, 0) > LargeImageBytes
\* >= for >: a script of exactly 500000 bytes counts as large
IsLargeScript_Inclusive(sc) == JsOr(sc.transferSize, 0) >= LargeScriptBytes
IsLargeScript(sc) == JsOr(sc.transferSize, 0) > LargeScriptBytes

Warning(kind, severity, title) == [kind |-> kind, severity |-> severity, title |-> title]

LargeImagesWarning(v, images) ==
    LET lcpIsBad == v.lcp # Null /\ Val(v.lcp) > LcpBad
        largeImages == SelectSeq(images, IsLargeImage)
    IN  IF lcpIsBad /\ Len(largeImages) > 0
        THEN << Warning("largeImages", "high",
                        <<Len(largeImages), "large images detected (avg",
                          ToFixed0(SumTransferSize(largeImages), Len(largeImages) * BytesPerKB),
                          "KB)">>) >>
        ELSE <<>>

\* >= for >: cls of exactly 0.1 is reported
ClsWarning_Inclusive(v) ==
    LET clsIsBad == v.cls >= ClsBad
    IN  IF clsIsBad
        THEN << Warning("layoutStability", "high",
                        <<"Poor layout stability (CLS:", ToFixed0(v.cls, 10), "/1000)">>) >>
        ELSE <<>>

ClsWarning(v) ==
    \* cls is always a number: the code's "cls !== null" is always true
    LET clsIsBad == v.cls > ClsBad
    IN  IF clsIsBad
        THEN << Warning("layoutStability", "high",
                        <<"Poor layout stability (CLS:", ToFixed0(v.cls, 10), "/1000)">>) >>
        ELSE <<>>

\* >= for >: ttfb of exactly 800 is reported
TtfbWarning_Inclusive(v) ==
    LET ttfbIsBad == v.ttfb # Null /\ Val(v.ttfb) >= TtfbBad
    IN  IF ttfbIsBad
        THEN << Warning("slowServer", "medium",
                        <<"Slow server response time (", Val(v.ttfb), "ms)">>) >>
        ELSE <<>>

TtfbWarning(v) ==
    LET ttfbIsBad == v.ttfb # Null /\ Val(v.ttfb) > TtfbBad
    IN  IF ttfbIsBad
        THEN << Warning("slowServer", "medium",
                        <<"Slow server response time (", Val(v.ttfb), "ms)">>) >>
        ELSE <<>>

\* the text names INP whenever inp is bad
InteractivityWarning_PrefersInp(v) ==
    LET fidIsBad == v.fid # Null /\ Val(v.fid) > FidBad
        inpIsBad == v.inp # Null /\ Val(v.inp) > InpBad
        metric == IF inpIsBad THEN <<"INP:", v.inp, "ms">> ELSE <<"FID:", v.fid, "ms">>
    IN  IF fidIsBad \/ inpIsBad
        THEN << Warning("interactivity", "high",
                        <<"Slow interactivity detected (", metric, ")">>) >>
        ELSE <<>>

InteractivityWarning(v) ==
    LET fidIsBad == v.fid # Null /\ Val(v.fid) > FidBad
        inpIsBad == v.inp # Null /\ Val(v.inp) > InpBad
        metric == IF fidIsBad THEN <<"FID:", v.fid, "ms">> ELSE <<"INP:", v.inp, "ms">>
    IN  IF fidIsBad \/ inpIsBad
        THEN << Warning("interactivity", "high",
                        <<"Slow interactivity detected (", metric, ")">>) >>
        ELSE <<>>

HeavyJsWarning(v, scripts) ==
    LET lcpIsBad == v.lcp # Null /\ Val(v.lcp) > LcpBad
        largeScripts == SelectSeq(scripts, IsLargeScript)
    IN  IF lcpIsBad /\ Len(largeScripts) > 0
        THEN << Warning("heavyJs", "medium",
                        <<"Heavy JavaScript detected (",
                          ToFixed0(SumTransferSize(largeScripts), BytesPerKB),
                          "KB across", Len(largeScripts), "files)">>) >>
        ELSE <<>>

MissingAltWarning(env) ==
    IF env.imgsWithoutAlt > 0
    THEN << Warning("missingAlt", "low", <<env.imgsWithoutAlt, "images missing alt attributes">>) >>
    ELSE <<>>

\* the warnings array in descending severity
DerivedWarnings_SeveritySorted(env, v, images, scripts) ==
    LargeImagesWarning(v, images) \o ClsWarning(v) \o InteractivityWarning(v)
    \o TtfbWarning(v) \o HeavyJsWarning(v, scripts) \o MissingAltWarning(env)

\* the warnings array, in the order of the six push calls
DerivedWarnings(env, v, images, scripts) ==
    LargeImagesWarning(v, images) \o ClsWarning(v) \o TtfbWarning(v)
    \o InteractivityWarning(v) \o HeavyJsWarning(v, scripts) \o MissingAltWarning(env)

\* a failure returns the vitals and the warnings derived so far, with the
\* counts at 0
calculatePerformanceMetrics_PartialOnFailure(env, v, n) ==
    IF ~env.hasPerformance
    THEN getEmptyMetrics(n)
    ELSE IF env.throws
    THEN getEmptyMetrics(n)
    ELSE LET images == SelectSeq(env.resources, IsImage)
             scripts == SelectSeq(env.resources, IsScript)
             stylesheets == SelectSeq(env.resources, IsStylesheet)
         IN  IF env.altQueryThrows
             THEN [getEmptyMetrics(n) EXCEPT
                     !.lcp = v.lcp, !.fid = v.fid, !.cls = v.cls, !.ttfb = v.ttfb, !.inp = v.inp,
                     !.warnings = LargeImagesWarning(v, images) \o ClsWarning(v)
                                  \o TtfbWarning(v) \o InteractivityWarning(v)
                                  \o HeavyJsWarning(v, scripts)]
             ELSE [lcp |-> v.lcp, fid |-> v.fid, cls |-> v.cls, ttfb |-> v.ttfb, inp |-> v.inp,
                   totalNodes |-> env.totalNodes,
                   totalImages |-> Len(images),
                   totalScripts |-> Len(scripts),
                   totalStylesheets |-> Len(stylesheets),
                   warnings |-> DerivedWarnings(env, v, images, scripts),
                   obj |-> n]

\* Whatever is raised inside the try - by the first DOM query or the
\* resource-timing access before anything is derived, by the query for the
\* images without alt after five warnings were - ends in the catch, which
\* returns getEmptyMetrics().
calculatePerformanceMetrics(env, v, n) ==
    IF ~env.hasPerformance
    THEN getEmptyMetrics(n)
    ELSE IF env.throws
    THEN getEmptyMetrics(n)
    ELSE LET images == SelectSeq(env.resources, IsImage)
             scripts == SelectSeq(env.resources, IsScript)
             stylesheets == SelectSeq(env.resources, IsStylesheet)
         IN  IF env.altQueryThrows
             THEN getEmptyMetrics(n)
             ELSE [lcp |-> v.lcp, fid |-> v.fid, cls |-> v.cls, ttfb |-> v.ttfb, inp |-> v.inp,
                   totalNodes |-> env.totalNodes,
                   totalImages |-> Len(images),
                   totalScripts |-> Len(scripts),
                   totalStylesheets |-> Len(stylesheets),
                   warnings |-> DerivedWarnings(env, v, images, scripts),
                   obj |-> n]

(***************************************************************************)
(* The operations of performance.ts, as relations on the program's         *)
(* variables.                                                              *)
(***************************************************************************)
\* the flag is never tested: every call registers again
initWebVitals_NoFlagGuard ==
    IF ~platform.hasPO
    THEN UNCHANGED <<observedVitals, vitalsObserversInitialized, observers>>
    ELSE /\ vitalsObserversInitialized' = TRUE
         /\ observers' = [m \in Metrics |->
                            IF m \in platform.unsupported THEN observers[m] ELSE observers[m] + 1]
         /\ observedVitals' =
                IF platform.nav # Null
                THEN [observedVitals EXCEPT
                        !.ttfb = Num(platform.nav.responseStart - platform.nav.requestStart)]
                ELSE observedVitals

\* one try around the whole body: the first registration that raises ends
\* the call, the later observers are not registered and TTFB is not computed
initWebVitals_AbortsOnFailure ==
    IF vitalsObserversInitialized \/ ~platform.hasPO
    THEN UNCHANGED <<observedVitals, vitalsObserversInitialized, observers>>
    ELSE LET pos == [lcp |-> 1, cls |-> 2, fid |-> 3, inp |-> 4]
         IN  /\ vitalsObserversInitialized' = TRUE
             /\ observers' = [m \in Metrics |->
                                IF \A u \in platform.unsupported : pos[m] < pos[u]
                                THEN observers[m] + 1 ELSE observers[m]]
             /\ observedVitals' =
                    IF platform.nav # Null /\ platform.unsupported = {}
                    THEN [observedVitals EXCEPT
                            !.ttfb = Num(platform.nav.responseStart - platform.nav.requestStart)]
                    ELSE observedVitals

\* ttfb is responseStart alone, requestStart is not subtracted
initWebVitals_TtfbFromResponseStart ==
    IF vitalsObserversInitialized \/ ~platform.hasPO
    THEN UNCHANGED <<observedVitals, vitalsObserversInitialized, observers>>
    ELSE /\ vitalsObserversInitialized' = TRUE
         /\ observers' = [m \in Metrics |->
                            IF m \in platform.unsupported THEN observers[m] ELSE observers[m] + 1]
         /\ observedVitals' =
                IF platform.nav # Null
                THEN [observedVitals EXCEPT !.ttfb = Num(platform.nav.responseStart)]
                ELSE observedVitals

\* TTFB is computed before the PerformanceObserver test
initWebVitals_TtfbBeforeGuard ==
    IF vitalsObserversInitialized
    THEN UNCHANGED <<observedVitals, vitalsObserversInitialized, observers>>
    ELSE /\ observedVitals' =
                IF platform.nav # Null
                THEN [observedVitals EXCEPT
                        !.ttfb = Num(platform.nav.responseStart - platform.nav.requestStart)]
                ELSE observedVitals
         /\ IF ~platform.hasPO
            THEN UNCHANGED <<vitalsObserversInitialized, observers>>
            ELSE /\ vitalsObserversInitialized' = TRUE
                 /\ observers' = [m \in Metrics |->
                                    IF m \in platform.unsupported THEN observers[m]
                                    ELSE observers[m] + 1]

\* The two early returns, then the flag, the four registrations (each in its
\* own try: a registration that raises adds no observer) and TTFB.
initWebVitals ==
    IF vitalsObserversInitialized \/ ~platform.hasPO
    THEN UNCHANGED <<observedVitals, vitalsObserversInitialized, observers>>
    ELSE /\ vitalsObserversInitialized' = TRUE
         /\ observers' = [m \in Metrics |->
                            IF m \in platform.unsupported THEN observers[m] ELSE observers[m] + 1]
         /\ observedVitals' =
                IF platform.nav # Null
                THEN [observedVitals EXCEPT
                        !.ttfb = Num(platform.nav.responseStart - platform.nav.requestStart)]
                ELSE observedVitals

\* an off-by-one window: an entry of age 4999 is already stale
CacheValid_ShortWindow(now) ==
    /\ cachedPerformanceMetrics # Null
    /\ (now - lastMetricsCalculationTime) < METRICS_CACHE_DURATION - 1

\* <= for <: an entry of age exactly 5000 is still served
CacheValid_Inclusive(now) ==
    /\ cachedPerformanceMetrics # Null
    /\ (now - lastMetricsCalculationTime) <= METRICS_CACHE_DURATION

CacheValid(now) ==
    /\ cachedPerformanceMetrics # Null
    /\ (now - lastMetricsCalculationTime) < METRICS_CACHE_DURATION

\* the snapshot is computed from the initial vitals, not from the store
getPerformanceMetrics_IgnoresStore(now, env) ==
    IF CacheValid(now)
    THEN /\ returned' = cachedPerformanceMetrics
         /\ UNCHANGED <<cachedPerformanceMetrics, lastMetricsCalculationTime, calcCount>>
    ELSE LET metrics == calculatePerformanceMetrics(env, InitialVitals, calcCount + 1)
         IN  /\ calcCount' = calcCount + 1
             /\ cachedPerformanceMetrics' = metrics
             /\ lastMetricsCalculationTime' = now
             /\ returned' = metrics

\* a fallback snapshot is returned but not cached: the next call retries
getPerformanceMetrics_RetriesAfterFailure(now, env) ==
    IF CacheValid(now)
    THEN /\ returned' = cachedPerformanceMetrics
         /\ UNCHANGED <<cachedPerformanceMetrics, lastMetricsCalculationTime, calcCount>>
    ELSE LET metrics == calculatePerformanceMetrics(env, observedVitals, calcCount + 1)
         IN  /\ calcCount' = calcCount + 1
             /\ IF metrics = getEmptyMetrics(calcCount + 1)
                THEN UNCHANGED <<cachedPerformanceMetrics, lastMetricsCalculationTime>>
                ELSE /\ cachedPerformanceMetrics' = metrics
                     /\ lastMetricsCalculationTime' = now
             /\ returned' = metrics

\* calculatePerformanceMetrics catches whatever is raised inside it, so the
\* catch of getPerformanceMetrics itself is never entered.
getPerformanceMetrics(now, env) ==
    IF CacheValid(now)
    THEN /\ returned' = cachedPerformanceMetrics
         /\ UNCHANGED <<cachedPerformanceMetrics, lastMetricsCalculationTime, calcCount>>
    ELSE LET metrics == calculatePerformanceMetrics(env, observedVitals, calcCount + 1)
         IN  /\ calcCount' = calcCount + 1
             /\ cachedPerformanceMetrics' = metrics
             /\ lastMetricsCalculationTime' = now
             /\ returned' = metrics

\* only the timestamp is reset, the entry stays
clearPerformanceCache_TimestampOnly ==
    /\ cachedPerformanceMetrics' = cachedPerformanceMetrics
    /\ lastMetricsCalculationTime' = 0

clearPerformanceCache ==
    /\ cachedPerformanceMetrics' = Null
    /\ lastMetricsCalculationTime' = 0

\* the store is reset and the flag cleared, the cache is forgotten
resetWebVitals_KeepsCache ==
    /\ observedVitals' = InitialVitals
    /\ vitalsObserversInitialized' = FALSE
    /\ UNCHANGED <<cachedPerformanceMetrics, lastMetricsCalculationTime>>
    /\ UNCHANGED observers

\* No observer is disconnected: the PerformanceObserver objects are locals of
\* initWebVitals and resetWebVitals holds no reference to them.
resetWebVitals ==
    /\ observedVitals' = InitialVitals
    /\ vitalsObserversInitialized' = FALSE
    /\ clearPerformanceCache
    /\ UNCHANGED observers

(***************************************************************************)
(* The actions.                                                            *)
(***************************************************************************)
Init ==
    /\ observedVitals = InitialVitals
    /\ vitalsObserversInitialized = FALSE
    /\ cachedPerformanceMetrics = Null
    /\ lastMetricsCalculationTime = 0
    /\ isActive = FALSE
    /\ platform \in Platforms
    /\ observers = [m \in Metrics |-> 0]
    /\ calcCount = 0
    /\ returned = Null
    /\ last = Op("none")
    /\ deliveries = 0
    /\ resets = 0
    /\ seen = NothingSeen
    /\ clearedSinceGet = FALSE
    /\ state = InitialState
    /\ page = InitialPage

InitWebVitals ==
    /\ initWebVitals
    /\ last' = Op("init")
    /\ returned' = Null
    /\ UNCHANGED <<cachedPerformanceMetrics, lastMetricsCalculationTime, isActive, platform,
                   calcCount, deliveries, resets, seen, clearedSinceGet, state, page>>

GetPerformanceMetrics(now, env) ==
    /\ CacheValid(now) \/ calcCount < MaxCalcs
    /\ getPerformanceMetrics(now, env)
    /\ last' = [Op("get") EXCEPT !.now = now,
                                  !.had = cachedPerformanceMetrics # Null,
                                  !.prev = lastMetricsCalculationTime]
    /\ seen' = [seen EXCEPT !.calcs = @ + (calcCount' - calcCount),
                            !.failed = IF CacheValid(now) THEN @
                                       ELSE env.hasPerformance /\ Fails(env)]
    /\ clearedSinceGet' = FALSE
    /\ UNCHANGED <<observedVitals, vitalsObserversInitialized, isActive, platform, observers,
                   deliveries, resets, state, page>>

ClearPerformanceCache ==
    /\ clearPerformanceCache
    /\ last' = Op("clear")
    /\ returned' = Null
    /\ clearedSinceGet' = TRUE
    /\ UNCHANGED <<observedVitals, vitalsObserversInitialized, isActive, platform, observers,
                   calcCount, deliveries, resets, seen, state, page>>

ResetWebVitals ==
    /\ resets < MaxResets
    /\ resetWebVitals
    /\ last' = Op("reset")
    /\ returned' = Null
    /\ resets' = resets + 1
    /\ seen' = NothingSeen
    /\ clearedSinceGet' = TRUE
    /\ UNCHANGED <<isActive, platform, calcCount, deliveries, state, page>>

\* the well-formed entries of a batch
WellFormed(entries) == SelectSeq(entries, LAMBDA e : ~Malformed(e))

RECURSIVE SumShift(_, _)
SumShift(entries, flag) ==
    IF Len(entries) = 0
    THEN 0
    ELSE (IF ~Malformed(Head(entries)) /\ Head(entries).hadRecentInput = flag
          THEN Head(entries).value ELSE 0)
         + SumShift(Tail(entries), flag)

\* the callback of entry type m raises on the batch: the loops of the CLS and
\* INP callbacks read a property of every entry
Raises(m, entries) ==
    /\ m \in {"cls", "inp"}
    /\ \E i \in 1..Len(entries) : Malformed(entries[i])

Record(m, entries) ==
    LET raised == IF Raises(m, entries) THEN seen.raised \cup {m} ELSE seen.raised
    IN  CASE m = "cls" -> [seen EXCEPT !.batches = @ + 1,
                                       !.shiftNoInput = @ + SumShift(entries, FALSE),
                                       !.raised = raised]
          [] m = "inp" -> [seen EXCEPT !.batches = @ + 1,
                                       !.durations = @ \cup {WellFormed(entries)[i].duration :
                                                                i \in 1..Len(WellFormed(entries))},
                                       !.raised = raised]
          [] OTHER -> [seen EXCEPT !.batches = @ + 1]

\* The platform delivers a batch of entries of type m: every observer
\* registered for m runs its callback on it.
Deliver(m, entries) ==
    /\ deliveries < MaxDeliveries
    /\ observers[m] > 0
    /\ observedVitals' = NotifyObservers(m, observers[m], observedVitals, entries)
    /\ last' = Op("deliver")
    /\ returned' = Null
    /\ deliveries' = deliveries + 1
    /\ seen' = Record(m, entries)
    /\ UNCHANGED <<vitalsObserversInitialized, cachedPerformanceMetrics,
                   lastMetricsCalculationTime, isActive, platform, observers,
                   calcCount, resets, clearedSinceGet, state, page>>

(***************************************************************************)
(* The inspector's activation cycle (inspector.ts).                        *)
(***************************************************************************)
\* setActive(true), initWebVitals(), createHighlightBox() (a box left in the
\* document is replaced by a new one, to which no style was written yet) and
\* the two addEventListener calls, which attach a listener once however
\* often they are called with it.
activateInspector ==
    /\ isActive' = TRUE
    /\ initWebVitals
    /\ state' = [state EXCEPT !.highlightBox = TRUE]
    /\ page' = [page EXCEPT !.box = TRUE, !.style = Null, !.mousemove = TRUE, !.click = TRUE]
    /\ last' = Op("activate")
    /\ returned' = Null

\* What deactivateInspector leaves of the state module and the page after
\* setActive(false).  raises says where the cleanup raises, the catch ending
\* the call there: "box" at highlightBox.remove(), before the listeners are
\* removed; "panel" at panel.remove(), after they were; "none" nowhere.
\* The debounce timer is cancelled in no case.
Cleanup(raises) ==
    IF state.highlightBox /\ raises = "box"
    THEN [state |-> state, page |-> page]
    ELSE [state |-> [state EXCEPT !.highlightBox = FALSE],
          page |-> [page EXCEPT !.box = IF state.highlightBox THEN FALSE ELSE @,
                                !.style = IF state.highlightBox THEN Null ELSE @,
                                !.mousemove = FALSE, !.click = FALSE,
                                !.panel = IF raises = "panel" THEN @ ELSE FALSE]]

deactivateInspector(raises) ==
    /\ isActive' = FALSE
    /\ state' = Cleanup(raises).state
    /\ page' = Cleanup(raises).page
    /\ UNCHANGED <<observedVitals, vitalsObserversInitialized, observers>>
    /\ last' = Op("deactivate")
    /\ returned' = Null

ToggleInspector(raises) ==
    /\ IF isActive THEN deactivateInspector(raises) ELSE activateInspector
    /\ UNCHANGED <<cachedPerformanceMetrics, lastMetricsCalculationTime, platform,
                   calcCount, deliveries, resets, seen, clearedSinceGet>>

\* Escape while active: deactivateInspector(), then the handler removes the
\* panel itself, also when the cleanup ended early at the highlight box; a
\* panel whose remove() raised in the cleanup raises here again and stays.
Escape(raises) ==
    /\ isActive
    /\ isActive' = FALSE
    /\ state' = Cleanup(raises).state
    /\ page' = [Cleanup(raises).page EXCEPT !.panel = IF raises = "panel" THEN @ ELSE FALSE]
    /\ UNCHANGED <<observedVitals, vitalsObserversInitialized, observers>>
    /\ last' = Op("deactivate")
    /\ returned' = Null
    /\ UNCHANGED <<cachedPerformanceMetrics, lastMetricsCalculationTime, platform,
                   calcCount, deliveries, resets, seen, clearedSinceGet>>

\* where the cleanup of a deactivation raises: here nowhere
CleanupOutcomes == {"none"}

Next ==
    \/ InitWebVitals
    \/ \E now \in Times, env \in Envs : GetPerformanceMetrics(now, env)
    \/ ClearPerformanceCache
    \/ ResetWebVitals
    \/ \E m \in Metrics : \E entries \in Batches(m) : Deliver(m, entries)
    \/ \E raises \in CleanupOutcomes : ToggleInspector(raises)
    \/ \E raises \in CleanupOutcomes : Escape(raises)

Spec == Init /\ [][Next]_vars

(***************************************************************************)
(* The observers alone: initialization, deliveries and resets, on a wider  *)
(* range of platforms and batches - a registration that raises while a     *)
(* navigation entry exists, a navigation entry whose responseStart was not *)
(* recorded, malformed entries at any position of a batch, an LCP entry    *)
(* with neither renderTime nor loadTime.  A delivery is recorded with its  *)
(* entry type, its batch and the store its callbacks started from.         *)
(***************************************************************************)
MaxVitalDeliveries == 2

VitalPlatforms ==
    Platforms \cup
    { [hasPO |-> TRUE, unsupported |-> {"fid"}, nav |-> [responseStart |-> 950, requestStart |-> 50]],
      [hasPO |-> TRUE, unsupported |-> {},      nav |-> [responseStart |-> 0,   requestStart |-> 100]] }

VitalEntries(m) ==
    CASE m = "lcp" -> { [renderTime |-> 3000, loadTime |-> 2000],
                        [renderTime |-> 0,    loadTime |-> 2000],
                        [renderTime |-> 0,    loadTime |-> 0],
                        Null }
      [] m = "cls" -> ShiftEntries \cup {Null}
      [] m = "fid" -> FidEntries \cup {Null}
      [] m = "inp" -> EventEntries \cup {Null}

VitalBatches(m) == SeqsUpTo(VitalEntries(m), MaxBatch)

InitVitals ==
    /\ observedVitals = InitialVitals
    /\ vitalsObserversInitialized = FALSE
    /\ cachedPerformanceMetrics = Null
    /\ lastMetricsCalculationTime = 0
    /\ isActive = FALSE
    /\ platform \in VitalPlatforms
    /\ observers = [m \in Metrics |-> 0]
    /\ calcCount = 0
    /\ returned = Null
    /\ last = Op("none")
    /\ deliveries = 0
    /\ resets = 0
    /\ seen = NothingSeen
    /\ clearedSinceGet = FALSE
    /\ state = InitialState
    /\ page = InitialPage

DeliverBatch(m, entries) ==
    /\ deliveries < MaxVitalDeliveries
    /\ observers[m] > 0
    /\ observedVitals' = NotifyObservers(m, observers[m], observedVitals, entries)
    /\ last' = [Op("deliver") EXCEPT !.m = m, !.entries = entries, !.before = observedVitals]
    /\ returned' = Null
    /\ deliveries' = deliveries + 1
    /\ seen' = Record(m, entries)
    /\ UNCHANGED <<vitalsObserversInitialized, cachedPerformanceMetrics,
                   lastMetricsCalculationTime, isActive, platform, observers,
                   calcCount, resets, clearedSinceGet, state, page>>

NextVitals ==
    \/ InitWebVitals
    \/ ResetWebVitals
    \/ \E m \in Metrics : \E entries \in VitalBatches(m) : DeliverBatch(m, entries)

SpecVitals == InitVitals /\ [][NextVitals]_vars

(***************************************************************************)
(* The aggregator alone: getPerformanceMetrics applied to stores at, just  *)
(* above and below every warning threshold, on documents with resources at *)
(* the size thresholds, without window.performance, and failing early or   *)
(* late.  The stores are those an initialized page reaches by deliveries;  *)
(* ttfb is what initWebVitals computed from the navigation entry.  A call  *)
(* is recorded with the document it saw.                                   *)
(***************************************************************************)
EnvBoundary ==
    [hasPerformance |-> TRUE, throws |-> FALSE, altQueryThrows |-> FALSE, totalNodes |-> 30,
     resources |-> << [initiatorType |-> "img",    transferSize |-> 200000],
                      [initiatorType |-> "img",    transferSize |-> 200001],
                      [initiatorType |-> "img",    transferSize |-> 300001],
                      [initiatorType |-> "img",    transferSize |-> 0],
                      [initiatorType |-> "script", transferSize |-> 500000],
                      [initiatorType |-> "script", transferSize |-> 500001],
                      [initiatorType |-> "script", transferSize |-> 700000] >>,
     imgsWithoutAlt |-> 0]

EnvBrokenLate == [EnvHeavy EXCEPT !.altQueryThrows = TRUE]

EnvNoPerformance == [EnvHeavy EXCEPT !.hasPerformance = FALSE]

AggEnvs == {EnvPlain, EnvHeavy, EnvBoundary, EnvBroken, EnvBrokenLate, EnvNoPerformance}

AggPlatforms ==
    { [hasPO |-> TRUE, unsupported |-> {}, nav |-> [responseStart |-> 1000, requestStart |-> 100]],
      [hasPO |-> TRUE, unsupported |-> {}, nav |-> [responseStart |-> 900,  requestStart |-> 100]],
      [hasPO |-> TRUE, unsupported |-> {}, nav |-> Null] }

AggVitals(p) ==
    [lcp : {Null, Num(2500), Num(2501)}, cls : {1000, 1001},
     fid : {Null, Num(100), Num(101)}, inp : {Null, Num(200), Num(201)},
     ttfb : IF p.nav = Null THEN {Null}
            ELSE {Num(p.nav.responseStart - p.nav.requestStart)}]

InitAggregate ==
    /\ platform \in AggPlatforms
    /\ observedVitals \in AggVitals(platform)
    /\ vitalsObserversInitialized = TRUE
    /\ cachedPerformanceMetrics = Null
    /\ lastMetricsCalculationTime = 0
    /\ isActive = TRUE
    /\ observers = [m \in Metrics |-> 1]
    /\ calcCount = 0
    /\ returned = Null
    /\ last = Op("none")
    /\ deliveries = 0
    /\ resets = 0
    /\ seen = NothingSeen
    /\ clearedSinceGet = FALSE
    /\ state = ActiveState
    /\ page = ActivePage

GetPerformanceMetricsIn(now, env) ==
    /\ CacheValid(now) \/ calcCount < MaxCalcs
    /\ getPerformanceMetrics(now, env)
    /\ last' = [Op("get") EXCEPT !.now = now,
                                  !.had = cachedPerformanceMetrics # Null,
                                  !.prev = lastMetricsCalculationTime,
                                  !.env = env]
    /\ seen' = [seen EXCEPT !.calcs = @ + (calcCount' - calcCount),
                            !.failed = IF CacheValid(now) THEN @
                                       ELSE env.hasPerformance /\ Fails(env)]
    /\ clearedSinceGet' = FALSE
    /\ UNCHANGED <<observedVitals, vitalsObserversInitialized, isActive, platform, observers,
                   deliveries, resets, state, page>>

NextAggregate ==
    \E now \in Times, env \in AggEnvs : GetPerformanceMetricsIn(now, env)

SpecAggregate == InitAggregate /\ [][NextAggregate]_vars

(***************************************************************************)
(* The KB figures alone: the first aggregation of a page whose lcp is bad, *)
(* on documents with one large image and one large script whose sizes run  *)
(* through every remainder modulo 1024.                                    *)
(***************************************************************************)
MaxOffset == 1024

\* an image of 200 KB + k bytes and a script of 500 KB + k bytes
FormatEnv(k) ==
    [hasPerformance |-> TRUE, throws |-> FALSE, altQueryThrows |-> FALSE, totalNodes |-> 5,
     resources |-> << [initiatorType |-> "img",    transferSize |-> 204800 + k],
                      [initiatorType |-> "script", transferSize |-> 512000 + k] >>,
     imgsWithoutAlt |-> 0]

InitFormat ==
    /\ platform = [hasPO |-> TRUE, unsupported |-> {},
                   nav |-> [responseStart |-> 1000, requestStart |-> 100]]
    /\ observedVitals = [InitialVitals EXCEPT !.lcp = Num(3000), !.ttfb = Num(900)]
    /\ vitalsObserversInitialized = TRUE
    /\ cachedPerformanceMetrics = Null
    /\ lastMetricsCalculationTime = 0
    /\ isActive = TRUE
    /\ observers = [m \in Metrics |-> 1]
    /\ calcCount = 0
    /\ returned = Null
    /\ last = Op("none")
    /\ deliveries = 0
    /\ resets = 0
    /\ seen = NothingSeen
    /\ clearedSinceGet = FALSE
    /\ state = ActiveState
    /\ page = ActivePage

FirstAggregation(now, k) ==
    /\ cachedPerformanceMetrics = Null
    /\ GetPerformanceMetricsIn(now, FormatEnv(k))

NextFormat == \E now \in Times, k \in 0..MaxOffset : FirstAggregation(now, k)

SpecFormat == InitFormat /\ [][NextFormat]_vars

(***************************************************************************)
(* The state module next to the store and the cache of the aggregator.     *)
(* It declares a cache entry, a timestamp and a vitals store of its own;   *)
(* the observers write the store of performance.ts and                     *)
(* getPerformanceMetrics reads the cache and the store of performance.ts.  *)
(* Nothing writes the state module's copies (setCachedMetrics has no       *)
(* caller), so they keep their initial values.                             *)
(***************************************************************************)
\* state.clearPerformanceCache(): the state module's entry and timestamp
stateClearPerformanceCache ==
    [state EXCEPT !.cachedPerformanceMetrics = Null, !.lastMetricsCalculationTime = 0]

\* state.resetState(): isActive, highlightBox and the state module's cache
\* and vitals; it removes no element and no listener
resetState ==
    [stateClearPerformanceCache EXCEPT !.highlightBox = FALSE,
                                       !.observedVitals = InitialVitals]

StateClearPerformanceCache ==
    /\ resets < MaxResets
    /\ resets' = resets + 1
    /\ state' = stateClearPerformanceCache
    /\ last' = Op("stateClear")
    /\ returned' = Null
    /\ UNCHANGED <<observedVitals, vitalsObserversInitialized, cachedPerformanceMetrics,
                   lastMetricsCalculationTime, isActive, platform, observers,
                   calcCount, deliveries, seen, clearedSinceGet, page>>

ResetState ==
    /\ resets < MaxResets
    /\ resets' = resets + 1
    /\ isActive' = FALSE
    /\ state' = resetState
    /\ last' = Op("resetState")
    /\ returned' = Null
    /\ UNCHANGED <<observedVitals, vitalsObserversInitialized, cachedPerformanceMetrics,
                   lastMetricsCalculationTime, platform, observers,
                   calcCount, deliveries, seen, clearedSinceGet, page>>

NextState ==
    \/ \E raises \in CleanupOutcomes : ToggleInspector(raises)
    \/ \E m \in Metrics : \E entries \in Batches(m) : Deliver(m, entries)
    \/ \E now \in Times, env \in Envs : GetPerformanceMetrics(now, env)
    \/ StateClearPerformanceCache
    \/ ResetState

SpecState == Init /\ [][NextState]_vars

(***************************************************************************)
(* The inspector's listeners.  mousemove events reach debouncedMouseMove   *)
(* and click events handleClick while the listeners are attached; the      *)
(* debounce timer runs handleMouseMove when it fires, whatever happened to *)
(* the inspector in between.                                               *)
(***************************************************************************)
\* what elementFromPoint finds: the inspector's own UI, nothing or the body
\* or the document element, an element of the page
Elements == {"own", "body", "div"}

\* where the cleanup of a deactivation may raise
CleanupFailures == {"none", "box", "panel"}

handleMouseMove_IgnoresActive(target) ==
    IF ~state.highlightBox THEN [wrote |-> FALSE, style |-> page.style]
    ELSE IF target \in {"own", "body"} THEN [wrote |-> TRUE, style |-> <<"none">>]
    ELSE [wrote |-> TRUE, style |-> <<"block", target>>]

\* handleMouseMove: whether it wrote the highlight box's style, and the style
\* of the box after it
handleMouseMove(target) ==
    IF ~isActive \/ ~state.highlightBox THEN [wrote |-> FALSE, style |-> page.style]
    ELSE IF target \in {"own", "body"} THEN [wrote |-> TRUE, style |-> <<"none">>]
    ELSE [wrote |-> TRUE, style |-> <<"block", target>>]

\* handleClick: whether it reaches showPanel(target)
handleClick(target) == isActive /\ target \notin {"own", "body"}

\* a mousemove event: debounce's executedFunction replaces the pending timer
MouseMove ==
    /\ page.mousemove
    /\ page' = [page EXCEPT !.timeout = TRUE]
    /\ last' = Op("mousemove")
    /\ returned' = Null
    /\ UNCHANGED <<observedVitals, vitalsObserversInitialized, cachedPerformanceMetrics,
                   lastMetricsCalculationTime, isActive, platform, observers,
                   calcCount, deliveries, resets, seen, clearedSinceGet, state>>

\* the debounce timer fires: later() clears timeout and runs handleMouseMove
TimerFires(target) ==
    /\ page.timeout
    /\ page' = [page EXCEPT !.timeout = FALSE, !.style = handleMouseMove(target).style]
    /\ last' = [Op("timer") EXCEPT
                  !.effect = IF handleMouseMove(target).wrote THEN "highlight" ELSE "none"]
    /\ returned' = Null
    /\ UNCHANGED <<observedVitals, vitalsObserversInitialized, cachedPerformanceMetrics,
                   lastMetricsCalculationTime, isActive, platform, observers,
                   calcCount, deliveries, resets, seen, clearedSinceGet, state>>

\* a click event: handleClick, and through showPanel and gatherElementData
\* a getPerformanceMetrics call when it gets that far
Click(target, now, env) ==
    /\ page.click
    /\ IF handleClick(target)
       THEN /\ CacheValid(now) \/ calcCount < MaxCalcs
            /\ getPerformanceMetrics(now, env)
            /\ page' = [page EXCEPT !.panel = TRUE]
            /\ seen' = [seen EXCEPT !.calcs = @ + (calcCount' - calcCount),
                                    !.failed = IF CacheValid(now) THEN @
                                               ELSE env.hasPerformance /\ Fails(env)]
            /\ clearedSinceGet' = FALSE
       ELSE /\ returned' = Null
            /\ UNCHANGED <<cachedPerformanceMetrics, lastMetricsCalculationTime, calcCount,
                           page, seen, clearedSinceGet>>
    /\ last' = [Op("click") EXCEPT
                  !.now = now,
                  !.effect = IF handleClick(target) THEN "panel" ELSE "none"]
    /\ UNCHANGED <<observedVitals, vitalsObserversInitialized, isActive, platform, observers,
                   deliveries, resets, state>>

NextInspector ==
    \/ \E raises \in CleanupFailures : ToggleInspector(raises)
    \/ \E raises \in CleanupFailures : Escape(raises)
    \/ MouseMove
    \/ \E target \in Elements : TimerFires(target)
    \/ \E target \in Elements, now \in Times, env \in Envs : Click(target, now, env)

SpecInspector == Init /\ [][NextInspector]_vars

(***************************************************************************)
(* Properties.                                                             *)
(***************************************************************************)
IsGet(l) == l.op = "get"

\* C1: a getPerformanceMetrics call that finds a cache entry of age
\* now - t0 < 5000 returns that entry, does not invoke the aggregator and
\* leaves the entry and its timestamp as they were, whatever element is
\* inspected and whatever the observers wrote in between.
C1_CacheHit ==
    [][ ( /\ IsGet(last')
          /\ cachedPerformanceMetrics # Null
          /\ last'.now - lastMetricsCalculationTime < METRICS_CACHE_DURATION )
        => ( /\ returned' = cachedPerformanceMetrics
             /\ calcCount' = calcCount
             /\ cachedPerformanceMetrics' = cachedPerformanceMetrics
             /\ lastMetricsCalculationTime' = lastMetricsCalculationTime ) ]_vars

\* a call served from an entry of age 4999 after an observer overwrote lcp
C1_Witness ==
    /\ IsGet(last)
    /\ last.had
    /\ last.now - last.prev = METRICS_CACHE_DURATION - 1
    /\ returned.lcp # observedVitals.lcp

\* C2: a getPerformanceMetrics call that finds no entry, or an entry of age
\* >= 5000, invokes the aggregator exactly once, replaces the entry by the
\* snapshot computed from the current store, stamps it with the reading of
\* Date.now taken in that call, and returns it.
C2_CacheExpiry ==
    [][ ( /\ IsGet(last')
          /\ \/ cachedPerformanceMetrics = Null
             \/ last'.now - lastMetricsCalculationTime >= METRICS_CACHE_DURATION )
        => ( /\ calcCount' = calcCount + 1
             /\ \E env \in Envs :
                   cachedPerformanceMetrics' =
                       calculatePerformanceMetrics(env, observedVitals, calcCount')
             /\ cachedPerformanceMetrics' # cachedPerformanceMetrics
             /\ lastMetricsCalculationTime' = last'.now
             /\ returned' = cachedPerformanceMetrics' ) ]_vars

\* a recomputation over an entry of age exactly 5000
C2_Witness ==
    /\ IsGet(last)
    /\ last.had
    /\ last.now - last.prev = METRICS_CACHE_DURATION
    /\ returned.obj = calcCount
    /\ lastMetricsCalculationTime = last.now

\* C3: the first getPerformanceMetrics call after a clearPerformanceCache
\* invokes the aggregator and returns the snapshot it computed, whatever
\* the clock reads.
C3_ClearForcesRecompute ==
    [][ (clearedSinceGet /\ IsGet(last'))
        => ( /\ calcCount' = calcCount + 1
             /\ returned'.obj = calcCount' ) ]_vars

\* a second computation, on a cache that only clearPerformanceCache can
\* have emptied (no reset happened), at the lowest clock reading
C3_Witness ==
    /\ IsGet(last)
    /\ ~last.had
    /\ resets = 0
    /\ calcCount = 2
    /\ returned.obj = 2
    /\ last.now = 1

\* C4: resetWebVitals leaves lcp, fid, inp and ttfb absent, cls 0, the
\* initialization flag false and no cache entry; the next initWebVitals
\* registers the observers again.
C4_ResetState ==
    /\ [](last.op = "reset" =>
            /\ observedVitals = InitialVitals
            /\ vitalsObserversInitialized = FALSE
            /\ cachedPerformanceMetrics = Null
            /\ lastMetricsCalculationTime = 0)
    /\ [][ (last.op = "reset" /\ last'.op = "init" /\ platform.hasPO)
           => ( /\ vitalsObserversInitialized'
                /\ \A m \in Metrics \ platform.unsupported :
                       observers'[m] = observers[m] + 1 ) ]_vars

\* a reset of a store that was initialized, written by observers and
\* aggregated
C4_Witness ==
    /\ last.op = "reset"
    /\ observers["lcp"] > 0
    /\ deliveries > 0
    /\ calcCount > 0

NavTtfb == Num(platform.nav.responseStart - platform.nav.requestStart)

AfterReinit == IsGet(last) /\ resets > 0 /\ vitalsObserversInitialized

UnchangedProgram ==
    UNCHANGED <<observedVitals, vitalsObserversInitialized, cachedPerformanceMetrics,
                lastMetricsCalculationTime, observers>>

\* C6 as stated: after consecutive initWebVitals calls there is exactly one
\* subscription per metric.
C6_ExactlyOnePerMetric ==
    (last.op = "init" /\ resets = 0) => \A m \in Metrics : observers[m] = 1

\* C6, amended: initWebVitals with the flag set changes nothing; after any
\* number of initWebVitals calls since page load there is at most one
\* subscription per metric - exactly one for each entry type whose
\* registration succeeded, none when PerformanceObserver is missing - and
\* every delivered layout-shift entry without recent input is added to cls
\* exactly once.
C6_Idempotent ==
    /\ [][ (vitalsObserversInitialized /\ last'.op = "init") => UnchangedProgram ]_vars
    /\ [](resets = 0 =>
            /\ \A m \in Metrics :
                  observers[m] = IF vitalsObserversInitialized /\ m \notin platform.unsupported
                                 THEN 1 ELSE 0
            /\ observedVitals.cls = seen.shiftNoInput)

\* initWebVitals called again after the observers of the first call have
\* delivered
C6_Witness ==
    /\ last.op = "init"
    /\ resets = 0
    /\ vitalsObserversInitialized
    /\ observers["cls"] = 1
    /\ observedVitals.cls > 0

\* C7: whenever the inspector is deactivated the store is reset to all
\* absent / zero.
C7_DeactivationResetsStore ==
    last.op = "deactivate" => observedVitals = InitialVitals

\* C8: after a reset no observer of an earlier cycle is left, and at most
\* one subscription per metric is active at any time.
C8_AllOrNothing ==
    /\ \A m \in Metrics : observers[m] <= 1
    /\ last.op = "reset" => \A m \in Metrics : observers[m] = 0

\* C9: between two resets cls is the sum of the values of the delivered
\* layout-shift entries whose hadRecentInput is false.
C9_ClsIsSum ==
    observedVitals.cls = seen.shiftNoInput

MaxOf(S) == CHOOSE x \in S : \A y \in S : y <= x

Qualifying == {d \in seen.durations : d > InpMinDuration}

Delivered(m) == last.op = "deliver" /\ last.m = m

\* C11: after a delivered largest-contentful-paint batch whose last entry is
\* well formed, lcp is that entry's renderTime, or its loadTime when
\* renderTime is missing or 0, or 0 when both are - also when that is less
\* than the lcp before; an empty batch leaves lcp as it was; cls, fid, inp
\* and ttfb are as they were before the delivery.
C11_LcpLastWriterWins ==
    Delivered("lcp") =>
        LET n == Len(last.entries)
            e == last.entries[n]
        IN  /\ (n > 0 /\ ~Malformed(e))
                => observedVitals.lcp =
                       Num(IF e.renderTime # 0 THEN e.renderTime
                           ELSE IF e.loadTime # 0 THEN e.loadTime ELSE 0)
            /\ n = 0 => observedVitals.lcp = last.before.lcp
            /\ observedVitals = [last.before EXCEPT !.lcp = observedVitals.lcp]

\* lcp was 3000; a batch of two entries, the last with neither renderTime nor
\* loadTime, brings it down to 0
C11_Witness ==
    /\ Delivered("lcp")
    /\ last.before.lcp = Num(3000)
    /\ last.entries = << [renderTime |-> 0, loadTime |-> 2000], [renderTime |-> 0, loadTime |-> 0] >>
    /\ observedVitals.lcp = Num(0)

\* C12: after a delivered first-input batch whose first entry is well formed,
\* fid is processingStart - startTime of that first entry, whatever the later
\* entries of the batch and whatever fid was before (a second batch
\* overwrites the value of the first); cls, lcp, inp and ttfb are as they
\* were before the delivery.
C12_FidFirstEntryOverwrites ==
    Delivered("fid") =>
        LET n == Len(last.entries)
            e == last.entries[1]
        IN  /\ (n > 0 /\ ~Malformed(e))
                => observedVitals.fid = Num(e.processingStart - e.startTime)
            /\ n = 0 => observedVitals.fid = last.before.fid
            /\ observedVitals = [last.before EXCEPT !.fid = observedVitals.fid]

\* fid was 130 from an earlier batch; a second batch of two different entries
\* sets it to the 20 of its first entry
C12_Witness ==
    /\ Delivered("fid")
    /\ last.before.fid = Num(130)
    /\ last.entries = << [processingStart |-> 120, startTime |-> 100],
                         [processingStart |-> 150, startTime |-> 20] >>
    /\ observedVitals.fid = Num(20)

InitRuns(l) == l.op \in {"init", "activate"}

\* C13: an initWebVitals that passes its two guards (flag clear,
\* PerformanceObserver present) leaves ttfb = responseStart - requestStart of
\* the navigation entry when there is one and absent when there is none;
\* ttfb changes in no other step but a reset: no delivery, no
\* getPerformanceMetrics and no clearPerformanceCache changes it.
C13_TtfbOnlyByInit ==
    /\ [][ (InitRuns(last') /\ ~vitalsObserversInitialized /\ platform.hasPO)
           => observedVitals'.ttfb =
                  IF platform.nav # Null
                  THEN Num(platform.nav.responseStart - platform.nav.requestStart)
                  ELSE Null ]_vars
    /\ [][ observedVitals'.ttfb # observedVitals.ttfb
           => \/ InitRuns(last') /\ ~vitalsObserversInitialized /\ platform.hasPO
              \/ last'.op = "reset" ]_vars
    /\ [][ last'.op \in {"deliver", "get", "clear"}
           => observedVitals'.ttfb = observedVitals.ttfb ]_vars

\* the ttfb written by the initialization is still there after a delivery,
\* an aggregation and a clearPerformanceCache
C13_Witness ==
    /\ last.op = "clear"
    /\ platform.nav # Null
    /\ observedVitals.ttfb = Num(platform.nav.responseStart - platform.nav.requestStart)
    /\ deliveries > 0
    /\ calcCount > 0

\* C14: on a platform without PerformanceObserver initWebVitals registers
\* nothing, leaves the flag clear and leaves lcp, fid, inp and ttfb absent
\* and cls 0 - also when a navigation entry exists.
C14_NoPerformanceObserver ==
    ~platform.hasPO =>
        /\ observedVitals = InitialVitals
        /\ ~vitalsObserversInitialized
        /\ \A m \in Metrics : observers[m] = 0

\* initWebVitals has run on a platform without PerformanceObserver that has a
\* navigation entry
C14_Witness ==
    /\ last.op = "init"
    /\ ~platform.hasPO
    /\ platform.nav # Null

\* the callback of the recorded delivery raised: a layout-shift or event
\* batch with a malformed entry at some position
CallbackRaised == last.op = "deliver" /\ Raises(last.m, last.entries)

\* C15: when the callback of a delivery raises, every field of the store is
\* what it was before the callback started, wherever in the batch the
\* malformed entry is.
C15_MalformedDropsUpdate ==
    CallbackRaised => observedVitals = last.before

\* C16: when the registration of one entry type raises, initWebVitals still
\* sets the flag, registers an observer for every other entry type and
\* computes ttfb, and the field of the unsupported type keeps its initial
\* value for good; when a callback raises, no observer is removed and the
\* fields of the other metrics are untouched; every later delivery to
\* another metric is processed by its callback as if nothing had failed.
C16_FailureIsolation ==
    /\ [][ (last'.op = "init" /\ ~vitalsObserversInitialized /\ platform.hasPO)
           => ( /\ vitalsObserversInitialized'
                /\ \A m \in Metrics :
                       observers'[m] = IF m \in platform.unsupported
                                       THEN observers[m] ELSE observers[m] + 1
                /\ platform.nav # Null
                   => observedVitals'.ttfb =
                          Num(platform.nav.responseStart - platform.nav.requestStart) ) ]_vars
    /\ [](\A m \in platform.unsupported :
             observers[m] = 0 /\ observedVitals[m] = InitialVitals[m])
    /\ [][ last'.op = "deliver" => UNCHANGED <<observers, vitalsObserversInitialized>> ]_vars
    /\ [](last.op = "deliver" =>
            /\ observedVitals = [last.before EXCEPT ![last.m] = observedVitals[last.m]]
            /\ observedVitals =
                   NotifyObservers(last.m, observers[last.m], last.before, last.entries))

\* first-input cannot be observed; the CLS callback raised on an earlier
\* batch; the LCP batch delivered after that is recorded, ttfb is there and
\* fid is still absent
C16_Witness ==
    /\ platform.unsupported = {"fid"}
    /\ observers = [lcp |-> 1, cls |-> 1, fid |-> 0, inp |-> 1]
    /\ seen.raised = {"cls"}
    /\ Delivered("lcp")
    /\ last.before.lcp = Null
    /\ observedVitals.lcp = Num(3000)
    /\ observedVitals.ttfb = Num(900)
    /\ observedVitals.fid = Null

\* C17: in every reachable state cls >= 0 and each of lcp, fid, inp and ttfb
\* is absent or a number >= 0, whatever entries and navigation record the
\* platform supplies.
C17_StoreInvariant ==
    /\ observedVitals.cls >= 0
    /\ \A f \in {"lcp", "fid", "inp", "ttfb"} :
           observedVitals[f] = Null \/ Val(observedVitals[f]) >= 0

\* the recorded getPerformanceMetrics call invoked the aggregator
Computed ==
    /\ IsGet(last)
    /\ ~(last.had /\ last.now - last.prev < METRICS_CACHE_DURATION)

\* C18: when a DOM query or the resource-timing access raises during the
\* aggregation - before anything was derived or after the first five
\* warnings were - getPerformanceMetrics returns the fallback snapshot: the
\* four counts 0, lcp, fid, inp and ttfb absent, cls 0, no warnings,
\* whatever the store holds.
C18_AggregationFailure ==
    (Computed /\ Fails(last.env)) =>
        /\ returned.totalNodes = 0
        /\ returned.totalImages = 0
        /\ returned.totalScripts = 0
        /\ returned.totalStylesheets = 0
        /\ returned.lcp = Null
        /\ returned.fid = Null
        /\ returned.inp = Null
        /\ returned.ttfb = Null
        /\ returned.cls = 0
        /\ returned.warnings = <<>>

\* the query for the images without alt raises on a store for which the five
\* earlier warnings were all derived
C18_Witness ==
    /\ Computed
    /\ last.env = EnvBrokenLate
    /\ observedVitals.lcp = Num(2501)
    /\ observedVitals.cls = 1001
    /\ observedVitals.ttfb = Num(900)
    /\ observedVitals.fid = Num(101)
    /\ returned.obj = calcCount

WarningOrder ==
    <<"largeImages", "layoutStability", "slowServer", "interactivity", "heavyJs", "missingAlt">>

Position(kind) == CHOOSE i \in 1..Len(WarningOrder) : WarningOrder[i] = kind

Above(o, threshold) == o # Null /\ Val(o) > threshold

HasResource(env, type, bytes) ==
    \E i \in 1..Len(env.resources) :
        env.resources[i].initiatorType = type /\ env.resources[i].transferSize > bytes

\* the condition of each kind of warning, on the store and the document
Condition(kind, v, env) ==
    CASE kind = "largeImages"     -> Above(v.lcp, 2500) /\ HasResource(env, "img", 200000)
      [] kind = "layoutStability" -> v.cls > 1000
      [] kind = "slowServer"      -> Above(v.ttfb, 800)
      [] kind = "interactivity"   -> Above(v.fid, 100) \/ Above(v.inp, 200)
      [] kind = "heavyJs"         -> Above(v.lcp, 2500) /\ HasResource(env, "script", 500000)
      [] kind = "missingAlt"      -> env.imgsWithoutAlt > 0

Succeeded == Computed /\ last.env.hasPerformance /\ ~Fails(last.env)

\* C19: in every computed snapshot the warnings are in the order large
\* images, layout stability, slow server response, poor interactivity,
\* heavy JavaScript, missing alt text, each kind at most once, and a kind is
\* there iff its own condition holds.
C19_WarningOrder ==
    Succeeded =>
        LET w == returned.warnings
        IN  /\ \A i, j \in 1..Len(w) :
                   i < j => Position(w[i].kind) < Position(w[j].kind)
            /\ \A k \in 1..Len(WarningOrder) :
                   (\E i \in 1..Len(w) : w[i].kind = WarningOrder[k])
                   <=> Condition(WarningOrder[k], observedVitals, last.env)

\* all six warnings at once: the medium slow-server warning stands before
\* the high interactivity warning
C19_Witness ==
    /\ Succeeded
    /\ Len(returned.warnings) = 6
    /\ returned.warnings[3].severity = "medium"
    /\ returned.warnings[4].severity = "high"

Qualifies(r) == r.initiatorType = "img" /\ r.transferSize > 200000

LargeImageWarnings(w) == SelectSeq(w, LAMBDA x : x.kind = "largeImages")

\* C20: a computed snapshot has the large-images warning iff lcp is present
\* and > 2500 and some image resource has transferSize > 200000; it is then
\* one warning, of severity high, whose count is the number of those images
\* and whose average is their mean transferSize in KB, rounded.
C20_LargeImagesGating ==
    Succeeded =>
        LET large == SelectSeq(last.env.resources, Qualifies)
            found == LargeImageWarnings(returned.warnings)
        IN  IF Above(observedVitals.lcp, 2500) /\ Len(large) > 0
            THEN /\ Len(found) = 1
                 /\ found[1].severity = "high"
                 /\ found[1].title =
                        << Len(large), "large images detected (avg",
                           ToFixed0(SumTransferSize(large), Len(large) * 1024), "KB)" >>
            ELSE Len(found) = 0

\* lcp 2501 and images of 200000, 200001, 300001 and 0 bytes: two large
\* images, 244 KB on average
C20_Witness ==
    /\ Succeeded
    /\ last.env = EnvBoundary
    /\ observedVitals.lcp = Num(2501)
    /\ LargeImageWarnings(returned.warnings)[1].title =
           << 2, "large images detected (avg", 244, "KB)" >>

\* the warnings of one kind in the returned snapshot
Found(kind) == SelectSeq(returned.warnings, LAMBDA x : x.kind = kind)

\* C21: a computed snapshot has the interactivity warning iff fid > 100 or
\* inp > 200 (an absent value never qualifies); it is then one warning, of
\* severity high, and its text gives FID and its value whenever fid > 100
\* and INP and its value otherwise.
C21_InteractivityWarning ==
    Succeeded =>
        LET found == Found("interactivity")
            v == observedVitals
        IN  IF Above(v.fid, 100) \/ Above(v.inp, 200)
            THEN /\ Len(found) = 1
                 /\ found[1].severity = "high"
                 /\ found[1].title[2] = IF Above(v.fid, 100)
                                        THEN <<"FID:", v.fid, "ms">>
                                        ELSE <<"INP:", v.inp, "ms">>
            ELSE Len(found) = 0

\* fid 101 and inp 201 both qualify: one warning, naming FID
C21_Witness ==
    /\ Succeeded
    /\ observedVitals.fid = Num(101)
    /\ observedVitals.inp = Num(201)
    /\ Len(Found("interactivity")) = 1
    /\ Found("interactivity")[1].title[2][1] = "FID:"

\* C22: a computed snapshot has the layout-stability warning iff cls > 0.1;
\* it is then one warning, of severity high, whatever lcp, fid, inp and ttfb
\* are.
C22_LayoutStabilityWarning ==
    Succeeded =>
        LET found == Found("layoutStability")
        IN  IF observedVitals.cls > 1000
            THEN Len(found) = 1 /\ found[1].severity = "high"
            ELSE Len(found) = 0

\* cls just above 0.1 with lcp absent and nothing else bad
C22_Witness ==
    /\ Succeeded
    /\ observedVitals.cls = 1001
    /\ observedVitals.lcp = Null
    /\ returned.warnings = Found("layoutStability")
    /\ Len(returned.warnings) = 1

\* C23: a computed snapshot has the slow-server warning iff ttfb is present
\* and > 800; it is then one warning, of severity medium, whatever lcp is.
C23_SlowServerWarning ==
    Succeeded =>
        LET found == Found("slowServer")
        IN  IF Above(observedVitals.ttfb, 800)
            THEN Len(found) = 1 /\ found[1].severity = "medium"
            ELSE Len(found) = 0

\* ttfb 900 with lcp absent
C23_Witness ==
    /\ Succeeded
    /\ observedVitals.ttfb = Num(900)
    /\ observedVitals.lcp = Null
    /\ Len(Found("slowServer")) = 1

LargeScript(r) == r.initiatorType = "script" /\ r.transferSize > 500000

\* C24: a computed snapshot has the heavy-JavaScript warning iff lcp is
\* present and > 2500 and some script resource has transferSize > 500000;
\* it is then one warning, of severity medium, reporting the total size of
\* those scripts alone and their number.
C24_HeavyJavaScriptGating ==
    Succeeded =>
        LET large == SelectSeq(last.env.resources, LargeScript)
            found == Found("heavyJs")
        IN  IF Above(observedVitals.lcp, 2500) /\ Len(large) > 0
            THEN /\ Len(found) = 1
                 /\ found[1].severity = "medium"
                 /\ found[1].title =
                        << "Heavy JavaScript detected (",
                           ToFixed0(SumTransferSize(large), 1024),
                           "KB across", Len(large), "files)" >>
            ELSE Len(found) = 0

\* lcp 2501 and scripts of 500000, 500001 and 700000 bytes: two files,
\* 1200001 bytes
C24_Witness ==
    /\ Succeeded
    /\ last.env = EnvBoundary
    /\ observedVitals.lcp = Num(2501)
    /\ Found("heavyJs")[1].title =
           << "Heavy JavaScript detected (", 1172, "KB across", 2, "files)" >>

\* the KB figures of the returned snapshot and the byte quantities they show
ImageKB == Found("largeImages")[1].title[3]
ImageBytes == last.env.resources[1].transferSize
ScriptKB == Found("heavyJs")[1].title[2]
ScriptBytes == last.env.resources[2].transferSize

\* C25 as stated: the KB figure is the byte quantity divided by 1024,
\* truncated.
C25_KBTruncated ==
    Succeeded =>
        /\ ImageKB = ImageBytes \div 1024
        /\ ScriptKB = ScriptBytes \div 1024

\* C25, amended: the KB figure is the byte quantity divided by 1024 and
\* rounded to the nearest integer, a half rounding up: it is the integer kb
\* with kb * 1024 - 512 <= bytes < kb * 1024 + 512.
C25_KBRounded ==
    Succeeded =>
        /\ ImageKB * 1024 - 512 <= ImageBytes
        /\ ImageBytes < ImageKB * 1024 + 512
        /\ ScriptKB * 1024 - 512 <= ScriptBytes
        /\ ScriptBytes < ScriptKB * 1024 + 512

\* 200.5 KB and 500.5 KB are shown as 201 and 501
C25_Witness ==
    /\ Succeeded
    /\ ImageBytes = 204800 + 512
    /\ ImageKB = 201
    /\ ScriptBytes = 512000 + 512
    /\ ScriptKB = 501

VitalFields == {"lcp", "cls", "fid", "inp", "ttfb"}

\* C27 as stated: whenever getPerformanceMetrics recomputes, the lcp, cls,
\* fid, inp and ttfb of the returned snapshot are those of the store.
C27_ConsistentRead ==
    Computed => \A f \in VitalFields : returned[f] = observedVitals[f]

\* C27, amended: whenever getPerformanceMetrics recomputes and the
\* aggregation does not fail, the lcp, cls, fid, inp and ttfb of the returned
\* snapshot are those of the store, with every write of the callbacks that
\* ran before, and its warnings are derived from those values; when the
\* aggregation fails the snapshot is the fallback, whatever the store
\* holds; the call changes neither the store nor the flag.
C27_ConsistentReadUnlessFailed ==
    /\ [](Computed =>
            IF returned.totalNodes # 0
            THEN /\ \A f \in VitalFields : returned[f] = observedVitals[f]
                 /\ Len(Found("layoutStability")) = IF returned.cls > 1000 THEN 1 ELSE 0
                 /\ Len(Found("slowServer")) = IF Above(returned.ttfb, 800) THEN 1 ELSE 0
                 /\ Len(Found("interactivity")) =
                        IF Above(returned.fid, 100) \/ Above(returned.inp, 200) THEN 1 ELSE 0
                 /\ Len(Found("largeImages")) > 0 => Above(returned.lcp, 2500)
                 /\ Len(Found("heavyJs")) > 0 => Above(returned.lcp, 2500)
            ELSE returned = getEmptyMetrics(returned.obj))
    /\ [][ IsGet(last')
           => UNCHANGED <<observedVitals, vitalsObserversInitialized, observers>> ]_vars

\* a recomputation after a delivery wrote lcp 3000: the snapshot has it, and
\* the warnings that follow from it
C27_Witness ==
    /\ Computed
    /\ deliveries > 0
    /\ observedVitals.lcp = Num(3000)
    /\ returned.lcp = Num(3000)
    /\ Len(Found("largeImages")) = 1

\* the recorded getPerformanceMetrics call returned the cache entry
ServedFromCache ==
    /\ IsGet(last)
    /\ last.had
    /\ last.now - last.prev < METRICS_CACHE_DURATION

\* C28: when the aggregator catches a failure, getPerformanceMetrics stores
\* the fallback snapshot as the cache entry, stamped with the reading of
\* that call, and every call that finds it younger than 5000 returns it
\* without invoking the aggregator, whatever the document is by then.
C28_FailureIsCached ==
    /\ []((Computed /\ seen.failed) =>
            /\ returned = getEmptyMetrics(calcCount)
            /\ cachedPerformanceMetrics = returned
            /\ lastMetricsCalculationTime = last.now)
    /\ [][ ( /\ seen.failed
             /\ cachedPerformanceMetrics # Null
             /\ IsGet(last')
             /\ last'.now - lastMetricsCalculationTime < METRICS_CACHE_DURATION )
           => ( /\ calcCount' = calcCount
                /\ returned' = cachedPerformanceMetrics
                /\ returned' = getEmptyMetrics(calcCount) ) ]_vars

\* the aggregation failed; a later call on a document that no longer fails,
\* with bad vitals in the store, is served the zeroed snapshot
C28_Witness ==
    /\ ServedFromCache
    /\ seen.failed
    /\ last.env = EnvHeavy
    /\ observedVitals.lcp = Num(2501)
    /\ returned.totalNodes = 0
    /\ returned.warnings = <<>>

\* C29: whenever getPerformanceMetrics returns the cache entry without
\* recomputing, the age of the entry by the clock reading of that call is
\* at least 0 and less than 5000, whatever Date.now returns.
C29_BoundedStaleness ==
    ServedFromCache =>
        /\ 0 <= last.now - last.prev
        /\ last.now - last.prev < METRICS_CACHE_DURATION

\* C26: there is one vitals store and one cache entry, shared by every
\* operation: the state module's store and cache are those the aggregator
\* reads, and the getPerformanceMetrics call that follows resetState()
\* recomputes and reports the initial vitals.
C26_SingleStore ==
    [][ (last.op \in {"resetState", "stateClear"} /\ IsGet(last'))
        => /\ calcCount' = calcCount + 1
           /\ last.op = "resetState"
              => \A f \in VitalFields : returned'[f] = InitialVitals[f] ]_vars

\* C30: while isActive is false no run of the mousemove handler writes the
\* highlight box and no click shows a panel or reaches the aggregator,
\* whether the debounce timer was set before the deactivation and whether or
\* not the cleanup of the deactivation removed the listeners.
C30_InactiveHasNoEffect ==
    [][ (~isActive /\ last'.op \in {"timer", "click"})
        => /\ last'.effect = "none"
           /\ page'.style = page.style
           /\ page'.box = page.box
           /\ page'.panel = page.panel
           /\ returned' = Null
           /\ calcCount' = calcCount ]_vars

\* the debounce timer set while active fired after a deactivation whose
\* cleanup left the highlight box and the listeners in place, and a click
\* arrived at the listener of an inactive inspector
C30_Witness ==
    /\ ~isActive
    /\ last.op \in {"timer", "click"}
    /\ last.effect = "none"
    /\ state.highlightBox
    /\ page.mousemove /\ page.click

====
